---- MODULE Spec2Model ----
(***************************************************************************)
(* Order / inventory core of restaurant_gui.py: Inventory (catalog with    *)
(* stock), Order (list of (Product, qty) lines) and the RestaurantApp      *)
(* handlers that drive them (add, remove-last, checkout, cancel, reload,   *)
(* update-stock, kitchen / hold / print).                                  *)
(*                                                                         *)
(* Inventory.products is a list of Product objects, modelled as a sequence *)
(* of records [id, price, stock].  An order line holds a reference to a    *)
(* Product object and a quantity.  The handlers read only p.id, p.name and *)
(* p.price through that reference and no code ever assigns id or price, so *)
(* the reference is modelled by the immutable fields [id, price] of the    *)
(* object it points to; stock is always read and written through the       *)
(* inventory (get_product / get_stock / reduce_stock by id).               *)
(*                                                                         *)
(* Every handler runs to completion on the Tk event loop (its dialogs are  *)
(* modal), so each handler is one atomic action.  What a handler shows or  *)
(* returns (which message box, the reported line, the return value of      *)
(* reduce_stock) is recorded in lastOp.                                    *)
(***************************************************************************)
EXTENDS Integers, Sequences, FiniteSets, TLC

VARIABLES products, order, lastOp

vars == <<products, order, lastOp>>

\* ---------------------------------------------------------------- bounds
MaxPid   == 2      \* product ids are 1..MaxPid
MaxStock == 2      \* stocks are 0..MaxStock
MaxQty   == 2      \* quantities typed in the Qty entry are -1, 0, 1, MaxQty
MaxLines == 2      \* the order holds at most MaxLines lines

PIDs   == 1..MaxPid
Stocks == 0..MaxStock

\* None (no selection, dialog cancelled, product not found)
None == 0

\* ------------------------------------------------------------- inventory
RECURSIVE SortedSeq(_)
SortedSeq(S) ==
    IF S = {} THEN <<>>
    ELSE LET m == CHOOSE x \in S : \A y \in S : x <= y
         IN  <<m>> \o SortedSeq(S \ {m})

\* The price list of the menu: item id costs id.
PriceOf(id) == id

\* The product lists the backend puts in Inventory.products: any set of the
\* ids, each once (the Treeview rows are keyed by str(p.id)), each item with
\* its menu price and the stock MaxStock.  The other stocks come from checkout,
\* update-stock and direct reduce_stock calls.
Catalogs ==
    UNION { LET ids == SortedSeq(S)
            IN  { [i \in 1..Len(ids) |->
                      [id |-> ids[i], price |-> PriceOf(ids[i]),
                       stock |-> f[ids[i]]]]
                  : f \in [S -> {MaxStock}] }
          : S \in SUBSET PIDs }

\* Inventory.get_product: the index of the first product whose id is pid,
\* None when there is none.
RECURSIVE get_product_from(_, _, _)
get_product_from(prods, pid, i) ==
    IF i > Len(prods) THEN None
    ELSE IF prods[i].id = pid THEN i
    ELSE get_product_from(prods, pid, i + 1)

get_product(prods, pid) == get_product_from(prods, pid, 1)

\* Variants of reduce_stock with one of its checks wrong.
reduce_stock_unchecked(prods, pid, qty) ==
    LET p == get_product(prods, pid)
    IN  IF p = None THEN [ok |-> FALSE, products |-> prods]
        ELSE IF qty <= 0 THEN [ok |-> FALSE, products |-> prods]
        ELSE [ok |-> TRUE, products |-> [prods EXCEPT ![p].stock = @ - qty]]

reduce_stock_no_qty_check(prods, pid, qty) ==
    LET p == get_product(prods, pid)
    IN  IF p = None THEN [ok |-> FALSE, products |-> prods]
        ELSE IF prods[p].stock >= qty
             THEN [ok |-> TRUE,
                   products |-> [prods EXCEPT ![p].stock = @ - qty]]
        ELSE [ok |-> FALSE, products |-> prods]

reduce_stock_strict(prods, pid, qty) ==
    LET p == get_product(prods, pid)
    IN  IF p = None THEN [ok |-> FALSE, products |-> prods]
        ELSE IF qty <= 0 THEN [ok |-> FALSE, products |-> prods]
        ELSE IF prods[p].stock > qty
             THEN [ok |-> TRUE,
                   products |-> [prods EXCEPT ![p].stock = @ - qty]]
        ELSE [ok |-> FALSE, products |-> prods]

\* A variant of get_stock without the default for an absent product.
get_stock_no_default(prods, pid) ==
    LET p == get_product(prods, pid)
    IN  IF p # None THEN prods[p].stock ELSE -1

\* A variant of reduce_stock that lets an absent product pass.
reduce_stock_absent_ok(prods, pid, qty) ==
    LET p == get_product(prods, pid)
    IN  IF p = None THEN [ok |-> TRUE, products |-> prods]
        ELSE IF qty <= 0 THEN [ok |-> FALSE, products |-> prods]
        ELSE IF prods[p].stock >= qty
             THEN [ok |-> TRUE,
                   products |-> [prods EXCEPT ![p].stock = @ - qty]]
        ELSE [ok |-> FALSE, products |-> prods]

\* Inventory.get_stock
get_stock(prods, pid) ==
    LET p == get_product(prods, pid)
    IN  IF p # None THEN prods[p].stock ELSE 0

\* Inventory.reduce_stock: the returned flag and the product list afterwards.
reduce_stock(prods, pid, qty) ==
    LET p == get_product(prods, pid)
    IN  IF p = None THEN [ok |-> FALSE, products |-> prods]
        ELSE IF qty <= 0 THEN [ok |-> FALSE, products |-> prods]
        ELSE IF prods[p].stock >= qty
             THEN [ok |-> TRUE,
                   products |-> [prods EXCEPT ![p].stock = @ - qty]]
        ELSE [ok |-> FALSE, products |-> prods]

\* ----------------------------------------------------------------- order
\* A reference to a Product object, as an order line holds it.
ProductRef(p) == [id |-> p.id, price |-> p.price]

\* A variant of add_item that merges with an existing line of the product.
add_item_merge(items, product, qty) ==
    IF \E i \in 1..Len(items) : items[i][1] = product
    THEN LET i == CHOOSE j \in 1..Len(items) : items[j][1] = product
         IN  [items EXCEPT ![i] = <<product, @[2] + qty>>]
    ELSE Append(items, <<product, qty>>)

\* Order.add_item
add_item(items, product, qty) == Append(items, <<product, qty>>)

\* A variant of remove_last_item that pops the oldest line.
remove_last_item_first(items) ==
    IF items # <<>> THEN Tail(items) ELSE items

\* Order.remove_last_item
remove_last_item(items) ==
    IF items # <<>> THEN SubSeq(items, 1, Len(items) - 1) ELSE items

\* A variant of total that forgets the quantities.
RECURSIVE total_no_qty(_)
total_no_qty(items) ==
    IF items = <<>> THEN 0
    ELSE items[1][1].price + total_no_qty(Tail(items))

\* Order.total: sum(p.price * q for p, q in self.items)
RECURSIVE total(_)
total(items) ==
    IF items = <<>> THEN 0
    ELSE items[1][1].price * items[1][2] + total(Tail(items))

\* TAX_RATE = 0.07, in percent.
TAX_RATE_PERCENT == 7

\* RestaurantApp.update_order_summary: subtotal, tax = subtotal * TAX_RATE and
\* total = subtotal + tax, in hundredths of the price unit so that the tax
\* is an integer.
update_order_summary(items) ==
    LET subtotal == 100 * total(items)
        tax == (subtotal * TAX_RATE_PERCENT) \div 100
    IN  [subtotal |-> subtotal, tax |-> tax, total |-> subtotal + tax]

\* ------------------------------------------------------- what was shown
\* before and retry are filled in by a failed checkout only: the product list
\* it started from, and whether it re-ran a checkout that had just failed
\* after its first line.
Op(op, result, k, pid, qty, avail, calls) ==
    [op |-> op, result |-> result, k |-> k, pid |-> pid, qty |-> qty,
     avail |-> avail, calls |-> calls, before |-> <<>>, retry |-> 0]

Shown(op, result) == Op(op, result, 0, 0, 0, 0, 0)

\* ------------------------------------------------------------------ init
\* RestaurantApp.__init__: a fresh Order, and the products load_products
\* put in the inventory.
Init ==
    /\ products \in Catalogs
    /\ order = <<>>
    /\ lastOp = Shown("init", "")

\* --------------------------------------------------------------- actions
\* The text of the Qty entry: one int() accepts (with its value) or one it
\* rejects with ValueError.
QtyTexts ==
    { [kind |-> "int", val |-> n] : n \in {-1, 0, 1, MaxQty} }
        \cup { [kind |-> "text", val |-> 0] }

\* int(self.qty_var.get())
int_of(text) ==
    IF text.kind = "int" THEN [ok |-> TRUE, val |-> text.val]
    ELSE [ok |-> FALSE, val |-> 0]

\* The rows a Treeview shows after its refresh: one per product.
Rows(prods) == { prods[i].id : i \in 1..Len(prods) }

\* A variant of the quantity check that lets 0 through.
bad_quantity_lt(qty) == qty < 0

\* The quantity check of add_to_order.
bad_quantity(qty) == qty <= 0

\* A variant of add_to_order that reserves the stock when the line is added
\* and refuses a quantity the stock does not cover.
add_to_order_reserving(cap) ==
    \E selected \in Rows(products) \cup {None}, text \in QtyTexts :
        /\ Len(order) < cap
        /\ IF selected = None
           THEN /\ lastOp' = Shown("add", "NothingSelected")
                /\ UNCHANGED <<products, order>>
           ELSE LET p == get_product(products, selected)
                    q == int_of(text)
                    r == reduce_stock(products, selected, q.val)
                IN  IF p = None
                    THEN /\ lastOp' = Shown("add", "NotFound")
                         /\ UNCHANGED <<products, order>>
                    ELSE IF ~q.ok
                    THEN /\ lastOp' = Shown("add", "NotANumber")
                         /\ UNCHANGED <<products, order>>
                    ELSE IF bad_quantity(q.val)
                    THEN /\ lastOp' = Op("add", "BadQuantity", 0, 0, q.val, 0, 0)
                         /\ UNCHANGED <<products, order>>
                    ELSE IF ~r.ok
                    THEN /\ lastOp' = Op("add", "StockLow", 0, selected, q.val, 0, 0)
                         /\ UNCHANGED <<products, order>>
                    ELSE /\ products' = r.products
                         /\ order' = add_item(order, ProductRef(products[p]), q.val)
                         /\ lastOp' = Op("add", "Added", 0, selected, q.val, 0, 0)

\* RestaurantApp.add_to_order, explored while the order holds fewer than cap
\* lines.
add_to_order_upto(cap) ==
    \E selected \in Rows(products) \cup {None}, text \in QtyTexts :
        /\ Len(order) < cap
        /\ UNCHANGED products
        /\ IF selected = None
           THEN /\ lastOp' = Shown("add", "NothingSelected")
                /\ UNCHANGED order
           ELSE LET p == get_product(products, selected)
                    q == int_of(text)
                IN  IF p = None
                    THEN /\ lastOp' = Shown("add", "NotFound")
                         /\ UNCHANGED order
                    ELSE IF ~q.ok
                    THEN /\ lastOp' = Shown("add", "NotANumber")
                         /\ UNCHANGED order
                    ELSE IF bad_quantity(q.val)
                    THEN /\ lastOp' = Op("add", "BadQuantity", 0, 0, q.val, 0, 0)
                         /\ UNCHANGED order
                    ELSE /\ order' = add_item(order, ProductRef(products[p]), q.val)
                         /\ lastOp' = Op("add", "Added", 0, selected, q.val, 0, 0)

\* RestaurantApp.add_to_order
add_to_order == add_to_order_upto(MaxLines)

\* RestaurantApp._on_remove_last
_on_remove_last ==
    /\ order' = remove_last_item(order)
    /\ lastOp' = Shown("remove_last", IF order = <<>> THEN "Empty" ELSE "Removed")
    /\ UNCHANGED products

\* A variant of the loop that does not stop at the first refusal.
RECURSIVE checkout_loop_no_break(_, _, _)
checkout_loop_no_break(prods, items, i) ==
    IF i > Len(items)
    THEN [ok |-> TRUE, k |-> 0, products |-> prods, calls |-> i - 1]
    ELSE LET r == reduce_stock(prods, items[i][1].id, items[i][2])
             rest == checkout_loop_no_break(r.products, items, i + 1)
         IN  IF ~r.ok
             THEN [ok |-> FALSE, k |-> i, products |-> rest.products,
                   calls |-> rest.calls]
             ELSE rest

\* The for loop of _on_checkout from line i on: reduce_stock for each line in
\* list order, break at the first refusal.  k is the line it broke at (0 when
\* the loop ran to its else branch), calls the number of reduce_stock calls.
RECURSIVE checkout_loop(_, _, _)
checkout_loop(prods, items, i) ==
    IF i > Len(items)
    THEN [ok |-> TRUE, k |-> 0, products |-> prods, calls |-> i - 1]
    ELSE LET r == reduce_stock(prods, items[i][1].id, items[i][2])
         IN  IF ~r.ok
             THEN [ok |-> FALSE, k |-> i, products |-> r.products, calls |-> i]
             ELSE checkout_loop(r.products, items, i + 1)

\* Variants of the order reset: never reset, always reset.
order_after_checkout_keep(items, ok) == items

order_after_checkout_clear(items, ok) == <<>>

\* The order after the loop: a fresh Order in the else branch, the same
\* Order object after a break.
order_after_checkout(items, ok) == IF ok THEN <<>> ELSE items

\* A variant of the loop's effect that rolls the decrements back when a line
\* is refused.
products_after_checkout_rollback(prods, r) ==
    IF r.ok THEN r.products ELSE prods

\* The products after the loop: the decrements made are kept, also after a
\* break ("don't roll back to keep it simple").
products_after_checkout(prods, r) == r.products

\* A variant of the guard that lets an empty order through.
checkout_rejects_never(items) == FALSE

\* The guard of _on_checkout: nothing to check out.
checkout_rejects(items) == items = <<>>

\* A variant of _on_checkout that asks for the confirmation after the loop.
_on_checkout_asks_late ==
    \E proceed \in BOOLEAN :
        IF checkout_rejects(order)
        THEN /\ lastOp' = Shown("checkout", "EmptyOrder")
             /\ UNCHANGED <<products, order>>
        ELSE LET r == checkout_loop(products, order, 1)
                 after == products_after_checkout(products, r)
             IN  /\ products' = after
                 /\ IF ~proceed
                    THEN /\ lastOp' = Shown("checkout", "Declined")
                         /\ UNCHANGED order
                    ELSE /\ order' = order_after_checkout(order, r.ok)
                         /\ lastOp' =
                                IF r.ok
                                THEN Op("checkout", "Success", 0, 0, 0, 0, r.calls)
                                ELSE Op("checkout", "StockLow", r.k,
                                        order[r.k][1].id, order[r.k][2],
                                        get_stock(after, order[r.k][1].id),
                                        r.calls)

\* RestaurantApp._on_checkout; proceed is the answer to askyesno.
_on_checkout ==
    \E proceed \in BOOLEAN :
        IF checkout_rejects(order)
        THEN /\ lastOp' = Shown("checkout", "EmptyOrder")
             /\ UNCHANGED <<products, order>>
        ELSE IF ~proceed
        THEN /\ lastOp' = Shown("checkout", "Declined")
             /\ UNCHANGED <<products, order>>
        ELSE LET r == checkout_loop(products, order, 1)
                 after == products_after_checkout(products, r)
             IN  /\ products' = after
                 /\ order' = order_after_checkout(order, r.ok)
                 /\ lastOp' =
                        IF r.ok
                        THEN Op("checkout", "Success", 0, 0, 0, 0, r.calls)
                        ELSE [Op("checkout", "StockLow", r.k,
                                 order[r.k][1].id, order[r.k][2],
                                 get_stock(after, order[r.k][1].id),
                                 r.calls)
                              EXCEPT !.before = products,
                                     !.retry = IF /\ lastOp.op = "checkout"
                                                  /\ lastOp.result = "StockLow"
                                                  /\ lastOp.k > 1
                                               THEN 1 ELSE 0]

\* RestaurantApp._on_print_receipt
_on_print_receipt ==
    /\ lastOp' = Shown("print_receipt", IF order = <<>> THEN "NothingToPrint" ELSE "Preview")
    /\ UNCHANGED <<products, order>>

\* RestaurantApp._on_send_to_kitchen
_on_send_to_kitchen ==
    /\ lastOp' = Shown("send_to_kitchen", IF order = <<>> THEN "NoItems" ELSE "Sent")
    /\ UNCHANGED <<products, order>>

\* A variant of _on_hold_order that reserves the stock of the held lines.
_on_hold_order_reserving ==
    /\ lastOp' = Shown("hold_order", IF order = <<>> THEN "NoItems" ELSE "Held")
    /\ products' = checkout_loop(products, order, 1).products
    /\ UNCHANGED order

\* RestaurantApp._on_hold_order
_on_hold_order ==
    /\ lastOp' = Shown("hold_order", IF order = <<>> THEN "NoItems" ELSE "Held")
    /\ UNCHANGED <<products, order>>

\* A variant of _on_cancel_order that does not wait for the answer.
_on_cancel_order_unasked ==
    \E yes \in BOOLEAN :
        /\ UNCHANGED products
        /\ IF order = <<>>
           THEN /\ lastOp' = Shown("cancel", "AlreadyEmpty")
                /\ UNCHANGED order
           ELSE /\ order' = <<>>
                /\ lastOp' = Shown("cancel", IF yes THEN "Cleared" ELSE "Declined")

\* RestaurantApp._on_cancel_order; yes is the answer to askyesno.
_on_cancel_order ==
    \E yes \in BOOLEAN :
        /\ UNCHANGED products
        /\ IF order = <<>>
           THEN /\ lastOp' = Shown("cancel", "AlreadyEmpty")
                /\ UNCHANGED order
           ELSE IF yes
           THEN /\ order' = <<>>
                /\ lastOp' = Shown("cancel", "Cleared")
           ELSE /\ lastOp' = Shown("cancel", "Declined")
                /\ UNCHANGED order

\* Inventory.load_products: self.products is replaced wholesale by the list
\* the backend supplies; the placeholder's empty list is one of them.
load_products == Catalogs

\* RestaurantApp._on_load_menu
_on_load_menu ==
    /\ products' \in load_products
    /\ lastOp' = Shown("load_menu", "Loaded")
    /\ UNCHANGED order

\* simpledialog.askinteger(..., minvalue=0): an integer >= 0, or None when
\* the operator cancels the dialog.
Cancelled == -1
askinteger == {0, 1, MaxStock} \cup {Cancelled}

\* A variant of the assignment that adds the entered value to the stock.
stock_after_update_added(old, new_stock) == old + new_stock

\* product.stock = new_stock
stock_after_update(old, new_stock) == new_stock

\* RestaurantApp._on_update_stock
_on_update_stock ==
    \E selected \in Rows(products) \cup {None}, new_stock \in askinteger :
        /\ UNCHANGED order
        /\ IF selected = None
           THEN /\ lastOp' = Shown("update_stock", "PickItem")
                /\ UNCHANGED products
           ELSE LET p == get_product(products, selected)
                IN  IF p = None
                    THEN /\ lastOp' = Shown("update_stock", "NotFound")
                         /\ UNCHANGED products
                    ELSE IF new_stock = Cancelled
                    THEN /\ lastOp' = Shown("update_stock", "Cancelled")
                         /\ UNCHANGED products
                    ELSE /\ products' = [products EXCEPT
                                           ![p].stock = stock_after_update(@, new_stock)]
                         /\ lastOp' = Op("update_stock", "Updated", 0, selected, new_stock, 0, 0)

\* A direct call inventory.reduce_stock(pid, qty) with arbitrary arguments
\* (ids in or outside the catalog, quantities <= 0 or above every stock).
PidArgs == 0..MaxPid
QtyArgs == (-1)..(MaxStock + 1)

call_reduce_stock ==
    \E r \in { reduce_stock(products, pid, qty) :
                  pid \in PidArgs, qty \in QtyArgs } :
        /\ products' = r.products
        /\ lastOp' = Op("reduce_stock", IF r.ok THEN "True" ELSE "False",
                        0, 0, 0, 0, 1)
        /\ UNCHANGED order

Next ==
    \/ add_to_order
    \/ _on_remove_last
    \/ _on_checkout
    \/ _on_print_receipt
    \/ _on_send_to_kitchen
    \/ _on_hold_order
    \/ _on_cancel_order
    \/ _on_load_menu
    \/ _on_update_stock
    \/ call_reduce_stock

Spec == Init /\ [][Next]_vars

\* Building an order of up to MaxLines + 1 lines and checking it out, again
\* and again: the runs in which a checkout that failed is re-run.
add_to_order_long == add_to_order_upto(MaxLines + 1)

NextRetry ==
    \/ add_to_order_long
    \/ _on_remove_last
    \/ _on_checkout

SpecRetry == Init /\ [][NextRetry]_vars

\* ------------------------------------------------------------ properties
\* The sum of the quantities of lines 1..n of items that reference pid.
RECURSIVE SumQty(_, _, _)
SumQty(items, pid, n) ==
    IF n = 0 THEN 0
    ELSE SumQty(items, pid, n - 1)
             + (IF items[n][1].id = pid THEN items[n][2] ELSE 0)

InCatalog(prods, pid) == \E i \in 1..Len(prods) : prods[i].id = pid

\* The stock of an item that is in the catalog.
StockIn(prods, pid) ==
    prods[CHOOSE i \in 1..Len(prods) : prods[i].id = pid].stock

\* Line j cannot be served from the stocks prods once lines 1..j-1 were.
Refused(prods, items, j) ==
    LET pid == items[j][1].id
    IN  \/ ~InCatalog(prods, pid)
        \/ items[j][2] <= 0
        \/ SumQty(items, pid, j) > StockIn(prods, pid)

IsFirstRefused(prods, items, k) ==
    /\ k \in 1..Len(items)
    /\ Refused(prods, items, k)
    /\ \A j \in 1..(k - 1) : ~Refused(prods, items, j)

\* The catalog after: every product as before, with its stock lowered by the
\* quantities of lines 1..n of items that reference it.
DecrementedBy(before, after, items, n) ==
    /\ Len(after) = Len(before)
    /\ \A i \in 1..Len(before) :
           after[i] = [before[i] EXCEPT
                         !.stock = @ - SumQty(items, before[i].id, n)]

CheckoutFailed(op) == op.op = "checkout" /\ op.result = "StockLow"
CheckoutDone(op)   == op.op = "checkout" /\ op.result = "Success"

\* C1: in every reachable state every catalog item's stock is >= 0.
C1_StockNeverNegative ==
    \A i \in 1..Len(products) : products[i].stock >= 0

\* C1 witness: a checkout or a direct decrement has taken an item's stock
\* down to exactly 0.
C1_Witness ==
    /\ lastOp.op \in {"checkout", "reduce_stock"}
    /\ lastOp.result \in {"Success", "True"}
    /\ \E i \in 1..Len(products) : products[i].stock = 0

\* C2: reduce_stock(pid, qty) returns False and changes no stock when pid is
\* absent, qty <= 0 or qty > the item's stock; otherwise it returns True,
\* lowers that item's stock by exactly qty and changes no other item.
C2_ReduceStockContract ==
    \A pid \in PidArgs, qty \in QtyArgs :
        LET r == reduce_stock(products, pid, qty)
            refuse == \/ ~InCatalog(products, pid)
                      \/ qty <= 0
                      \/ qty > StockIn(products, pid)
        IN  IF refuse
            THEN r.ok = FALSE /\ r.products = products
            ELSE /\ r.ok = TRUE
                 /\ Len(r.products) = Len(products)
                 /\ \A i \in 1..Len(products) :
                        r.products[i] =
                            IF products[i].id = pid
                            THEN [products[i] EXCEPT !.stock = @ - qty]
                            ELSE products[i]

\* C2 witness: a call returned True and left an item at 0 (qty was equal to
\* its stock) next to another item that still has stock.
C2_Witness ==
    /\ lastOp.op = "reduce_stock"
    /\ lastOp.result = "True"
    /\ \E i, j \in 1..Len(products) :
           products[i].stock = 0 /\ products[j].stock > 0

\* C3: when a confirmed checkout fails at line k, the first line in ticket
\* order whose decrement is refused, each item's stock afterwards is its stock
\* before minus the quantities of lines 1..k-1 that reference it.
C3_PartialFailureKept ==
    [][CheckoutFailed(lastOp') =>
        /\ IsFirstRefused(products, order, lastOp'.k)
        /\ DecrementedBy(products, products', order, lastOp'.k - 1)]_vars

\* C3 witness: a checkout failed at a line after the first, and a line before
\* it had lowered a stock.
C3_Witness ==
    /\ CheckoutFailed(lastOp)
    /\ lastOp.k >= 2
    /\ InCatalog(products, order[1][1].id)

\* C4: when every line of a non-empty order is decremented by a confirmed
\* checkout, each item's stock afterwards is its stock before minus the
\* quantities of all lines that reference it, and the order is empty.
C4_FullCommit ==
    [][CheckoutDone(lastOp') =>
        /\ order # <<>>
        /\ \A j \in 1..Len(order) : ~Refused(products, order, j)
        /\ DecrementedBy(products, products', order, Len(order))
        /\ order' = <<>>]_vars

\* C4 witness: a checkout of at least two lines succeeded.
C4_Witness ==
    /\ CheckoutDone(lastOp)
    /\ lastOp.calls >= 2
    /\ order = <<>>

\* C5: after a checkout that fails at any line, the order holds exactly the
\* lines it held before, in the same sequence.
C5_FailedCheckoutKeepsOrder ==
    [][CheckoutFailed(lastOp') => order' = order]_vars

\* C5 witness: a checkout failed and the order still holds two lines.
C5_Witness ==
    /\ CheckoutFailed(lastOp)
    /\ Len(order) >= 2

\* C6: checkout on an empty order is rejected before any stock is touched:
\* no reduce_stock call, no stock change, the order stays empty.
C6_EmptyCheckoutRejected ==
    [][lastOp'.op = "checkout" /\ order = <<>> =>
        /\ lastOp'.result = "EmptyOrder"
        /\ lastOp'.calls = 0
        /\ products' = products
        /\ order' = <<>>]_vars

\* C6 witness: a checkout was rejected as empty while the catalog has stock.
C6_Witness ==
    /\ lastOp.op = "checkout"
    /\ lastOp.result = "EmptyOrder"
    /\ order = <<>>
    /\ \E i \in 1..Len(products) : products[i].stock > 0

\* C7: a failed checkout reports the first refused line in ticket order, that
\* line's item and quantity, and the item's stock at the moment of failure
\* (after lines 1..k-1, or 0 when the item is absent), which is smaller than
\* the requested quantity.
C7_FailureReport ==
    [][CheckoutFailed(lastOp') =>
        LET k == lastOp'.k
        IN  /\ IsFirstRefused(products, order, k)
            /\ lastOp'.calls = k
            /\ lastOp'.pid = order[k][1].id
            /\ lastOp'.qty = order[k][2]
            /\ lastOp'.avail =
                   IF InCatalog(products, lastOp'.pid)
                   THEN StockIn(products, lastOp'.pid)
                            - SumQty(order, lastOp'.pid, k - 1)
                   ELSE 0
            /\ lastOp'.avail < lastOp'.qty]_vars

\* C7 witness: a checkout failed at a later line of an item that an earlier
\* line had already lowered, with stock left.
C7_Witness ==
    /\ CheckoutFailed(lastOp)
    /\ lastOp.k >= 2
    /\ order[1][1].id = lastOp.pid
    /\ lastOp.avail >= 1

\* C8: every line of the order has quantity > 0 in every reachable state, and
\* an add with a quantity <= 0 is rejected, leaving order and catalog as
\* they were.
C8_QuantitiesPositive ==
    /\ [](\A i \in 1..Len(order) : order[i][2] > 0)
    /\ [][lastOp'.op = "add" /\ lastOp'.qty <= 0 =>
            /\ lastOp'.result # "Added"
            /\ order' = order
            /\ products' = products]_vars

\* C8 witness: an add with a quantity <= 0 was rejected on an order that
\* holds lines.
C8_Witness ==
    /\ lastOp.op = "add"
    /\ lastOp.result = "BadQuantity"
    /\ lastOp.qty <= 0
    /\ order # <<>>

\* C9: remove-last removes exactly the last line and leaves the earlier lines
\* unchanged and in order; on an empty order it changes nothing.
C9_RemoveLastIsLifo ==
    [][lastOp'.op = "remove_last" =>
        /\ products' = products
        /\ IF order = <<>>
           THEN order' = <<>>
           ELSE /\ Len(order') = Len(order) - 1
                /\ \A i \in 1..Len(order') : order'[i] = order[i]]_vars

\* C9 witness: a line was removed and an earlier line is still there.
C9_Witness ==
    /\ lastOp.op = "remove_last"
    /\ lastOp.result = "Removed"
    /\ order # <<>>

\* C10: every accepted add appends one new line for the selected item with
\* the entered quantity at the end of the order and keeps all earlier lines;
\* it never merges with an existing line of the same item.
C10_AddAppends ==
    [][lastOp'.op = "add" /\ lastOp'.result = "Added" =>
        /\ Len(order') = Len(order) + 1
        /\ \A i \in 1..Len(order) : order'[i] = order[i]
        /\ \E i \in 1..Len(products) :
               /\ products[i].id = lastOp'.pid
               /\ order'[Len(order')] =
                      <<[id |-> products[i].id, price |-> products[i].price],
                        lastOp'.qty>>]_vars

\* C10 witness: the same item was added twice and the order holds two lines
\* for it.
C10_Witness ==
    /\ lastOp.op = "add"
    /\ lastOp.result = "Added"
    /\ Len(order) >= 2
    /\ order[Len(order)][1].id = order[Len(order) - 1][1].id

\* C11: adding a line checks no stock and changes no stock: in every state,
\* for every item of the catalog and every typed quantity > 0, the add is
\* accepted, also when the quantity (or the order's lines for the item
\* together with it) exceeds the item's stock; and no add changes a stock.
C11_AddIgnoresStock ==
    /\ [](Len(order) < MaxLines =>
            \A i \in 1..Len(products), q \in {1, MaxQty} :
                ENABLED (/\ add_to_order
                         /\ lastOp'.result = "Added"
                         /\ lastOp'.pid = products[i].id
                         /\ lastOp'.qty = q))
    /\ [][lastOp'.op = "add" => products' = products]_vars

\* C11 witness: a line was added whose quantity, with the earlier lines of the
\* same item, exceeds the item's stock.
C11_Witness ==
    /\ lastOp.op = "add"
    /\ lastOp.result = "Added"
    /\ InCatalog(products, lastOp.pid)
    /\ lastOp.qty > StockIn(products, lastOp.pid)
    /\ SumQty(order, lastOp.pid, Len(order)) > lastOp.qty

\* The sum over the items pid of S of price(pid) * (the quantities of the
\* lines of items that reference pid).
RECURSIVE SumByItem(_, _)
SumByItem(items, S) ==
    IF S = {} THEN 0
    ELSE LET pid == CHOOSE x \in S : TRUE
         IN  PriceOf(pid) * SumQty(items, pid, Len(items))
                 + SumByItem(items, S \ {pid})

\* C12: with integer prices and quantities, the subtotal of the order is the
\* sum over its lines of the item's price times the quantity, an add raises it
\* by price * quantity of the new line, remove-last lowers it by price *
\* quantity of the removed line, and total = subtotal + subtotal * taxRate
\* = subtotal * (1 + taxRate).
C12_TotalsConsistent ==
    /\ [](LET s == update_order_summary(order)
          IN  /\ s.subtotal = 100 * SumByItem(order, PIDs)
              /\ 100 * s.tax = s.subtotal * TAX_RATE_PERCENT
              /\ s.total = s.subtotal + s.tax
              /\ 100 * s.total = s.subtotal * (100 + TAX_RATE_PERCENT))
    /\ [][lastOp'.op = "add" /\ lastOp'.result = "Added" =>
            update_order_summary(order').subtotal =
                update_order_summary(order).subtotal
                    + 100 * PriceOf(lastOp'.pid) * lastOp'.qty]_vars
    /\ [][lastOp'.op = "remove_last" /\ lastOp'.result = "Removed" =>
            update_order_summary(order').subtotal =
                update_order_summary(order).subtotal
                    - 100 * order[Len(order)][1].price
                          * order[Len(order)][2]]_vars

\* C12 witness: the order holds two lines of items with different prices, one
\* with a quantity above 1, and its total with tax is above its subtotal.
C12_Witness ==
    /\ Len(order) >= 2
    /\ order[1][1].price # order[2][1].price
    /\ \E i \in 1..Len(order) : order[i][2] > 1
    /\ update_order_summary(order).total > update_order_summary(order).subtotal

\* C13: a confirmed cancel of a non-empty order replaces it with an empty
\* order; a cancel on an empty order or a declined cancel leaves the order as
\* it was; no cancel changes a stock.
C13_CancelFrame ==
    [][lastOp'.op = "cancel" =>
        /\ products' = products
        /\ (order = <<>>) = (lastOp'.result = "AlreadyEmpty")
        /\ lastOp'.result \in {"AlreadyEmpty", "Cleared", "Declined"}
        /\ IF lastOp'.result = "Cleared"
           THEN order' = <<>>
           ELSE order' = order]_vars

\* C13 witness: an order was cancelled and the catalog still has its stock.
C13_Witness ==
    /\ lastOp.op = "cancel"
    /\ lastOp.result = "Cleared"
    /\ order = <<>>
    /\ \E i \in 1..Len(products) : products[i].stock > 0

\* C14: update-stock sets the selected item's stock to exactly the entered
\* value (>= 0) whatever it was, and changes no other item and not the order;
\* when the dialog is cancelled or nothing is selected nothing changes.
C14_UpdateStockReplaces ==
    [][lastOp'.op = "update_stock" =>
        /\ order' = order
        /\ IF lastOp'.result = "Updated"
           THEN /\ lastOp'.qty >= 0
                /\ InCatalog(products, lastOp'.pid)
                /\ Len(products') = Len(products)
                /\ \A i \in 1..Len(products) :
                       products'[i] =
                           IF products[i].id = lastOp'.pid
                           THEN [products[i] EXCEPT !.stock = lastOp'.qty]
                           ELSE products[i]
           ELSE products' = products]_vars

\* C14 witness: an item's stock was set to a value >= 1 next to another item,
\* while the order holds lines.
C14_Witness ==
    /\ lastOp.op = "update_stock"
    /\ lastOp.result = "Updated"
    /\ lastOp.qty >= 1
    /\ Len(products) >= 2
    /\ order # <<>>
    /\ StockIn(products, lastOp.pid) = lastOp.qty

\* C15: add, remove-last, cancel, send-to-kitchen, hold and print leave every
\* stock unchanged; a stock changes only in a checkout, a reduce_stock call,
\* an update-stock or a reload; and only a reload changes which items the
\* catalog holds.
C15_StockFrame ==
    /\ [][lastOp'.op \in {"add", "remove_last", "cancel", "send_to_kitchen",
                          "hold_order", "print_receipt"}
            => products' = products]_vars
    /\ [][products' # products =>
            lastOp'.op \in {"checkout", "reduce_stock", "update_stock",
                            "load_menu"}]_vars
    /\ [][lastOp'.op # "load_menu" =>
            /\ Len(products') = Len(products)
            /\ \A i \in 1..Len(products) :
                   products'[i].id = products[i].id]_vars

\* C15 witness: an order whose lines the stock covers was put on hold.
C15_Witness ==
    /\ lastOp.op = "hold_order"
    /\ lastOp.result = "Held"
    /\ order # <<>>
    /\ \A j \in 1..Len(order) : ~Refused(products, order, j)

\* C16: get_stock(pid) is the item's stock when pid is in the catalog and 0
\* when it is not.
C16_GetStock ==
    \A pid \in PidArgs :
        get_stock(products, pid) =
            IF InCatalog(products, pid) THEN StockIn(products, pid) ELSE 0

\* C16 witness: a failed checkout asked get_stock for an item that is not in
\* the catalog and reported 0.
C16_Witness ==
    /\ CheckoutFailed(lastOp)
    /\ ~InCatalog(products, lastOp.pid)
    /\ lastOp.avail = 0

\* C17 as claimed: after a checkout that failed at line k > 1, a re-run on the
\* unchanged order decrements a second time each of lines 1..k-1 whose item
\* still has enough stock, so that item's stock ends 2 * qty below its value
\* before the first checkout.
C17_EachCoveredLineTwice ==
    [][/\ CheckoutFailed(lastOp)
       /\ lastOp.k > 1
       /\ lastOp'.op = "checkout"
       /\ lastOp'.result \in {"StockLow", "Success"}
       =>
       \A j \in 1..(lastOp.k - 1) :
           LET pid == order[j][1].id
           IN  (/\ InCatalog(products, pid)
                /\ StockIn(products, pid) >= order[j][2])
               => StockIn(products', pid) =
                      StockIn(lastOp.before, pid) - 2 * order[j][2]]_vars

\* C17: after a checkout that failed at line k > 1, a re-run on the unchanged
\* order starts again from line 1 and fails at the first line k2 <= k refused
\* against the stock already lowered; each item's stock ends below its value
\* before the first checkout by the quantities of lines 1..k-1 plus those of
\* lines 1..k2-1 that reference it.
C17_RerunFromLineOne ==
    [][/\ CheckoutFailed(lastOp)
       /\ lastOp.k > 1
       /\ lastOp'.op = "checkout"
       /\ lastOp'.result # "Declined"
       =>
       /\ lastOp'.result = "StockLow"
       /\ lastOp'.k <= lastOp.k
       /\ IsFirstRefused(products, order, lastOp'.k)
       /\ lastOp'.calls = lastOp'.k
       /\ order' = order
       /\ Len(products') = Len(lastOp.before)
       /\ \A i \in 1..Len(products') :
              products'[i] =
                  [lastOp.before[i] EXCEPT
                     !.stock = @ - SumQty(order, lastOp.before[i].id, lastOp.k - 1)
                                 - SumQty(order, lastOp.before[i].id,
                                          lastOp'.k - 1)]]_vars

\* C17 witness: a checkout that had failed after its first line was re-run and
\* got past its first line again.
C17_Witness ==
    /\ CheckoutFailed(lastOp)
    /\ lastOp.retry = 1
    /\ lastOp.k >= 2

\* The first line of items whose item is not in the catalog prods.
FirstAbsent(prods, items) ==
    CHOOSE j \in 1..Len(items) :
        /\ ~InCatalog(prods, items[j][1].id)
        /\ \A m \in 1..(j - 1) : InCatalog(prods, items[m][1].id)

\* C18: a reload replaces the catalog by a loaded list and leaves the order's
\* lines as they were; a confirmed checkout of an order with a line whose item
\* id is not in the catalog fails at that line or before it, reports 0 as
\* available when it fails at that line, and lowers no stock for it.
C18_ReloadThenCheckout ==
    /\ [][lastOp'.op = "load_menu" =>
            order' = order /\ products' \in Catalogs]_vars
    /\ [][/\ lastOp'.op = "checkout"
          /\ lastOp'.result \in {"StockLow", "Success"}
          /\ \E j \in 1..Len(order) : ~InCatalog(products, order[j][1].id)
          =>
          LET j0 == FirstAbsent(products, order)
          IN  /\ lastOp'.result = "StockLow"
              /\ lastOp'.k <= j0
              /\ lastOp'.k = j0 =>
                     lastOp'.pid = order[j0][1].id /\ lastOp'.avail = 0
              /\ DecrementedBy(products, products', order, lastOp'.k - 1)
              /\ order' = order]_vars

\* C18 witness: after a reload that dropped an item, a checkout got past its
\* first line and failed at the line of the dropped item.
C18_Witness ==
    /\ CheckoutFailed(lastOp)
    /\ lastOp.k >= 2
    /\ ~InCatalog(products, lastOp.pid)
    /\ Len(products) >= 1

\* C19: a declined checkout of a non-empty order calls no reduce_stock and
\* leaves every stock and every line as it was; afterwards the order is one
\* checkout does not reject, a confirmed checkout of it runs the loop, and its
\* last line can be removed or the order cancelled.
C19_DeclinedCheckout ==
    /\ [][lastOp'.op = "checkout" /\ lastOp'.result = "Declined" =>
            /\ order # <<>>
            /\ lastOp'.calls = 0
            /\ products' = products
            /\ order' = order]_vars
    /\ [][/\ lastOp.op = "checkout" /\ lastOp.result = "Declined"
          /\ lastOp'.op = "checkout" /\ lastOp'.result # "Declined"
          => /\ lastOp'.result \in {"StockLow", "Success"}
             /\ lastOp'.calls >= 1]_vars
    /\ [](lastOp.op = "checkout" /\ lastOp.result = "Declined" =>
            /\ ~checkout_rejects(order)
            /\ ENABLED (_on_remove_last /\ lastOp'.result = "Removed")
            /\ ENABLED (_on_cancel_order /\ lastOp'.result = "Cleared"))

\* C19 witness: a checkout the stock covers line by line was declined.
C19_Witness ==
    /\ lastOp.op = "checkout"
    /\ lastOp.result = "Declined"
    /\ order # <<>>
    /\ \A j \in 1..Len(order) : ~Refused(products, order, j)

====
